---- MODULE Spec2Model ----
(***************************************************************************)
(* Model of src/repositories/gem_repository.py: the in-memory store        *)
(* GemRepository (a dict of HiddenGem objects keyed by a random integer)   *)
(* and the module-level accessor get_gem_repository().                     *)
(*                                                                         *)
(* Python objects have identity, so the model keeps two heaps:             *)
(*   heap   the HiddenGem objects, addressed by reference 1..Len(heap);    *)
(*   dicts  the dict objects, addressed by slot; self_db is the slot the   *)
(*          store's attribute _db points at, snap the slot of the dict     *)
(*          the caller got from its latest get_all_hidden_gems call.       *)
(* The variable last records the latest call and how it ended.  returned    *)
(* (the records create_hidden_gem handed out since the latest clear_db)    *)
(* and cleared (a clear_db has run) are history variables: no action reads *)
(* them.                                                                   *)
(***************************************************************************)
EXTENDS Integers, Sequences, FiniteSets, TLC

VARIABLES heap, dicts, self_db, snap, last, returned, cleared, nCalls

vars == <<heap, dicts, self_db, snap, last, returned, cleared, nCalls>>

\* ---------------------------------------------------------------- bounds
\* randint(0, 100_000) is modelled as a draw from 0..IdMax.
IdMax == 1
\* Calls that change the store, a record or a returned mapping in one run
\* (create_hidden_gem, a successful update_<field>, clear_db, and the
\* caller's own attribute writes and dict edits).
MaxCalls == 3

\* ------------------------------------------------------------- constants
\* Python's None: the null reference (object references start at 1).
None == 0

Ids == 0..IdMax
\* Identifiers a caller may ask for; IdMax + 1 is never issued.
ProbeIds == 0..(IdMax + 1)
DictSlots == {1, 2, 3}
EmptyDict == << >>

Fields == {"name", "latitude", "longitude", "gem_type", "times_visited",
           "user_created", "website_link", "accessibility", "gem_images",
           "reviews"}

\* Two argument tuples that differ in every field (latitude and longitude in
\* tenths of a degree).
ArgsA == [name |-> "Old Mill", latitude |-> 515, longitude |-> -1,
          gem_type |-> "historic", times_visited |-> 0,
          user_created |-> "alice", website_link |-> "",
          accessibility |-> <<TRUE, FALSE>>, gem_images |-> << >>,
          reviews |-> << >>]
ArgsB == [name |-> "Old Windmill", latitude |-> 404, longitude |-> 740,
          gem_type |-> "scenic", times_visited |-> 7,
          user_created |-> "bob", website_link |-> "http://pier.example",
          accessibility |-> <<FALSE>>, gem_images |-> <<"pier.png">>,
          reviews |-> <<"nice">>]
CreateArgs == {ArgsA, ArgsB}
Values(f) == {ArgsA[f], ArgsB[f]}

\* ------------------------------------------------------- data structures
\* HiddenGem(name, new_id, latitude, ...): the constructor keeps each
\* argument in the attribute of the same name.
HiddenGem(name, id, latitude, longitude, gem_type, times_visited, user_created, website_link, accessibility, gem_images, reviews) ==
    [name |-> name, id |-> id, latitude |-> latitude,
     longitude |-> longitude, gem_type |-> gem_type,
     times_visited |-> times_visited, user_created |-> user_created,
     website_link |-> website_link, accessibility |-> accessibility,
     gem_images |-> gem_images, reviews |-> reviews]

\* dict.get(key): the value, or None for a missing key.
DictGet(d, k) == IF k \in DOMAIN d THEN d[k] ELSE None

\* d[k] = v on a dict's contents.
DictSet(d, k, v) == [x \in (DOMAIN d) \cup {k} |-> IF x = k THEN v ELSE d[x]]

\* del d[k]
DictDel(d, k) == [x \in (DOMAIN d) \ {k} |-> d[x]]

\* {**d}: a new dict with the same keys and the same value references.
DictClone(d) == [x \in DOMAIN d |-> d[x]]

\* Truth value of an object reference: None is false, an object is true.
Truthy(ref) == ref # None

\* The lowest dict slot not in use.
FreeSlot(used) == CHOOSE s \in DictSlots \ used :
                      \A t \in DictSlots \ used : s <= t

\* Dict objects nobody references any more are collected.
Collect(ds, live) == [s \in DictSlots |-> IF s \in live THEN ds[s] ELSE EmptyDict]

\* How a call ended.
Returned(op, id, args, v) ==
    [op |-> op, id |-> id, args |-> args, outcome |-> "returned", ret |-> v]
Raised(op, id, args, exc, msg) ==
    [op |-> op, id |-> id, args |-> args, outcome |-> exc, ret |-> msg]

\* The contents of the store's dict.
Db == dicts[self_db]

\* ------------------------------------------------------------------ Init
\* GemRepository.__init__: self._db = {}
Init ==
    /\ heap = << >>
    /\ dicts = [s \in DictSlots |-> EmptyDict]
    /\ self_db = 1
    /\ snap = None
    /\ last = Returned("__init__", None, << >>, None)
    /\ returned = << >>
    /\ cleared = FALSE
    /\ nCalls = 0

\* --------------------------------------------------------------- helpers
\* randint(a, b): any integer of a..b.
randint(a, b) == a..b

\* The ten non-identifier attributes of a record, as create received them.
ArgsOf(gem) == [f \in Fields |-> gem[f]]

\* obj.f1 = v1; obj.f2 = v2; ... on one object.
SetAttrs(gem, fs, vs) ==
    [a \in DOMAIN gem |->
        IF \E i \in DOMAIN fs : fs[i] = a
        THEN vs[CHOOSE i \in DOMAIN fs : fs[i] = a]
        ELSE gem[a]]

\* self._db.get(hidden_gem_id).<f>: the attribute, or the AttributeError
\* Python raises for an attribute of None.
GetAttr(d, hp, op, hidden_gem_id, fs) ==
    LET hidden_gem == DictGet(d, hidden_gem_id) IN
    IF hidden_gem = None
    THEN Raised(op, hidden_gem_id, << >>, "AttributeError",
                <<"'NoneType' object has no attribute", fs[1]>>)
    ELSE Returned(op, hidden_gem_id, << >>,
                  IF Len(fs) = 1 THEN hp[hidden_gem][fs[1]]
                  ELSE [i \in DOMAIN fs |-> hp[hidden_gem][fs[i]]])

\* The body shared by the nine single-field getters: no state changes.
FieldGet(op, hidden_gem_id, fs) ==
    /\ last' = GetAttr(Db, heap, op, hidden_gem_id, fs)
    /\ UNCHANGED <<heap, dicts, self_db, snap, returned, cleared, nCalls>>

\* The body shared by the ten update methods.
FieldUpdate(op, hidden_gem_id, fs, vs) ==
    LET hidden_gem == DictGet(Db, hidden_gem_id) IN
    IF ~Truthy(hidden_gem)
    THEN /\ last' = Raised(op, hidden_gem_id, << >>, "ValueError",
                           <<"hidden gem with id", hidden_gem_id, "not found">>)
         /\ UNCHANGED <<heap, dicts, self_db, snap, returned, cleared, nCalls>>
    ELSE /\ nCalls < MaxCalls
         /\ heap' = [heap EXCEPT ![hidden_gem] = SetAttrs(@, fs, vs)]
         /\ last' = Returned(op, hidden_gem_id, vs, hidden_gem)
         /\ nCalls' = nCalls + 1
         /\ UNCHANGED <<dicts, self_db, snap, returned, cleared>>

\* --------------------------------------------------------------- actions
\* Mutant of get_all_hidden_gems: `return self._db`, the store's own dict.
get_all_hidden_gems_alias ==
    /\ dicts' = Collect(dicts, {self_db})
    /\ snap' = self_db
    /\ last' = Returned("get_all_hidden_gems", None, << >>, self_db)
    /\ UNCHANGED <<heap, self_db, returned, cleared, nCalls>>

get_all_hidden_gems ==
    LET s == FreeSlot({self_db}) IN
    /\ dicts' = Collect([dicts EXCEPT ![s] = DictClone(Db)], {self_db, s})
    /\ snap' = s
    /\ last' = Returned("get_all_hidden_gems", None, << >>, s)
    /\ UNCHANGED <<heap, self_db, returned, cleared, nCalls>>

\* Mutant of get_hidden_gem_by_id: `return self._db[hidden_gem_id]`, which
\* raises KeyError for a missing key.
get_hidden_gem_by_id_subscript(hidden_gem_id) ==
    /\ last' = IF hidden_gem_id \in DOMAIN Db
               THEN Returned("get_hidden_gem_by_id", hidden_gem_id, << >>,
                             Db[hidden_gem_id])
               ELSE Raised("get_hidden_gem_by_id", hidden_gem_id, << >>,
                           "KeyError", <<hidden_gem_id>>)
    /\ UNCHANGED <<heap, dicts, self_db, snap, returned, cleared, nCalls>>

get_hidden_gem_by_id(hidden_gem_id) ==
    /\ last' = Returned("get_hidden_gem_by_id", hidden_gem_id, << >>,
                        DictGet(Db, hidden_gem_id))
    /\ UNCHANGED <<heap, dicts, self_db, snap, returned, cleared, nCalls>>

\* Mutant of create_hidden_gem: latitude and longitude passed to the
\* constructor in the wrong order.
create_hidden_gem_swapped(name, latitude, longitude, gem_type, times_visited, user_created, website_link, accessibility, gem_images, reviews) ==
    /\ nCalls < MaxCalls
    /\ nCalls' = nCalls + 1
    /\ \E new_id \in randint(0, IdMax) :
          LET hidden_gem == HiddenGem(name, new_id, longitude, latitude,
                                      gem_type, times_visited, user_created,
                                      website_link, accessibility,
                                      gem_images, reviews)
              ref == Len(heap) + 1
          IN /\ heap' = Append(heap, hidden_gem)
             /\ dicts' = [dicts EXCEPT ![self_db] = DictSet(@, new_id, ref)]
             /\ last' = Returned("create_hidden_gem", new_id,
                                 [name |-> name, latitude |-> latitude,
                                  longitude |-> longitude,
                                  gem_type |-> gem_type,
                                  times_visited |-> times_visited,
                                  user_created |-> user_created,
                                  website_link |-> website_link,
                                  accessibility |-> accessibility,
                                  gem_images |-> gem_images,
                                  reviews |-> reviews], ref)
             /\ returned' = Append(returned, [id |-> new_id, ref |-> ref])
    /\ UNCHANGED <<self_db, snap, cleared>>

\* Mutant of create_hidden_gem: the store keeps a copy of the record it
\* returns.
create_hidden_gem_copy(name, latitude, longitude, gem_type, times_visited, user_created, website_link, accessibility, gem_images, reviews) ==
    /\ nCalls < MaxCalls
    /\ nCalls' = nCalls + 1
    /\ \E new_id \in randint(0, IdMax) :
          LET hidden_gem == HiddenGem(name, new_id, latitude, longitude,
                                      gem_type, times_visited, user_created,
                                      website_link, accessibility,
                                      gem_images, reviews)
              ref == Len(heap) + 1
          IN /\ heap' = heap \o <<hidden_gem, hidden_gem>>
             /\ dicts' = [dicts EXCEPT ![self_db] = DictSet(@, new_id, ref + 1)]
             /\ last' = Returned("create_hidden_gem", new_id,
                                 [name |-> name, latitude |-> latitude,
                                  longitude |-> longitude,
                                  gem_type |-> gem_type,
                                  times_visited |-> times_visited,
                                  user_created |-> user_created,
                                  website_link |-> website_link,
                                  accessibility |-> accessibility,
                                  gem_images |-> gem_images,
                                  reviews |-> reviews], ref)
             /\ returned' = Append(returned, [id |-> new_id, ref |-> ref])
    /\ UNCHANGED <<self_db, snap, cleared>>

create_hidden_gem(name, latitude, longitude, gem_type, times_visited, user_created, website_link, accessibility, gem_images, reviews) ==
    /\ nCalls < MaxCalls
    /\ nCalls' = nCalls + 1
    /\ \E new_id \in randint(0, IdMax) :
          LET hidden_gem == HiddenGem(name, new_id, latitude, longitude,
                                      gem_type, times_visited, user_created,
                                      website_link, accessibility,
                                      gem_images, reviews)
              ref == Len(heap) + 1
          IN /\ heap' = Append(heap, hidden_gem)
             /\ dicts' = [dicts EXCEPT ![self_db] = DictSet(@, new_id, ref)]
             /\ last' = Returned("create_hidden_gem", new_id,
                                 [name |-> name, latitude |-> latitude,
                                  longitude |-> longitude,
                                  gem_type |-> gem_type,
                                  times_visited |-> times_visited,
                                  user_created |-> user_created,
                                  website_link |-> website_link,
                                  accessibility |-> accessibility,
                                  gem_images |-> gem_images,
                                  reviews |-> reviews], ref)
             /\ returned' = Append(returned, [id |-> new_id, ref |-> ref])
    /\ UNCHANGED <<self_db, snap, cleared>>

get_name(hidden_gem_id) == FieldGet("get_name", hidden_gem_id, <<"name">>)

update_name(hidden_gem_id, name) ==
    FieldUpdate("update_name", hidden_gem_id, <<"name">>, <<name>>)

get_cordinates(hidden_gem_id) ==
    FieldGet("get_cordinates", hidden_gem_id, <<"latitude", "longitude">>)

\* Mutant of update_cordinates: `hidden_gem.longitude = latitude`.
update_cordinates_pasted(hidden_gem_id, latitude, longitude) ==
    LET hidden_gem == DictGet(Db, hidden_gem_id) IN
    IF ~Truthy(hidden_gem)
    THEN /\ last' = Raised("update_cordinates", hidden_gem_id, << >>, "ValueError",
                           <<"hidden gem with id", hidden_gem_id, "not found">>)
         /\ UNCHANGED <<heap, dicts, self_db, snap, returned, cleared, nCalls>>
    ELSE /\ nCalls < MaxCalls
         /\ heap' = [heap EXCEPT ![hidden_gem] =
                        SetAttrs(@, <<"latitude", "longitude">>, <<latitude, latitude>>)]
         /\ last' = Returned("update_cordinates", hidden_gem_id,
                             <<latitude, longitude>>, hidden_gem)
         /\ nCalls' = nCalls + 1
         /\ UNCHANGED <<dicts, self_db, snap, returned, cleared>>

update_cordinates(hidden_gem_id, latitude, longitude) ==
    FieldUpdate("update_cordinates", hidden_gem_id,
                <<"latitude", "longitude">>, <<latitude, longitude>>)

get_gem_type(hidden_gem_id) ==
    FieldGet("get_gem_type", hidden_gem_id, <<"gem_type">>)

update_gem_type(hidden_gem_id, gem_type) ==
    FieldUpdate("update_gem_type", hidden_gem_id, <<"gem_type">>, <<gem_type>>)

get_times_visited(hidden_gem_id) ==
    FieldGet("get_times_visited", hidden_gem_id, <<"times_visited">>)

update_times_visited(hidden_gem_id, times_visited) ==
    FieldUpdate("update_times_visited", hidden_gem_id,
                <<"times_visited">>, <<times_visited>>)

get_user_created(hidden_gem_id) ==
    FieldGet("get_user_created", hidden_gem_id, <<"user_created">>)

update_user_created(hidden_gem_id, user_created) ==
    FieldUpdate("update_user_created", hidden_gem_id,
                <<"user_created">>, <<user_created>>)

get_website_link(hidden_gem_id) ==
    FieldGet("get_website_link", hidden_gem_id, <<"website_link">>)

update_website_link(hidden_gem_id, website_link) ==
    FieldUpdate("update_website_link", hidden_gem_id,
                <<"website_link">>, <<website_link>>)

get_accessibility(hidden_gem_id) ==
    FieldGet("get_accessibility", hidden_gem_id, <<"accessibility">>)

update_accessibility(hidden_gem_id, accessibility) ==
    FieldUpdate("update_accessibility", hidden_gem_id,
                <<"accessibility">>, <<accessibility>>)

get_gem_images(hidden_gem_id) ==
    FieldGet("get_gem_images", hidden_gem_id, <<"gem_images">>)

update_gem_images(hidden_gem_id, gem_images) ==
    FieldUpdate("update_gem_images", hidden_gem_id,
                <<"gem_images">>, <<gem_images>>)

get_reviews(hidden_gem_id) ==
    FieldGet("get_reviews", hidden_gem_id, <<"reviews">>)

update_reviews(hidden_gem_id, reviews) ==
    FieldUpdate("update_reviews", hidden_gem_id, <<"reviews">>, <<reviews>>)

\* self._db = {}: the attribute is rebound to a new, empty dict; the old
\* dict object is left as it was.
clear_db ==
    LET s == FreeSlot({self_db, snap}) IN
    /\ nCalls < MaxCalls
    /\ self_db' = s
    /\ dicts' = Collect([dicts EXCEPT ![s] = EmptyDict], {s, snap})
    /\ last' = Returned("clear_db", None, << >>, None)
    /\ returned' = << >>
    /\ cleared' = TRUE
    /\ nCalls' = nCalls + 1
    /\ UNCHANGED <<heap, snap>>

\* get_gem_repository(): `global _gem_repo` makes only _gem_repo global;
\* _user_repo is assigned in the body (line 398), so it is a local of the
\* function, and line 397 reads it before any assignment.
get_gem_repository ==
    LET declaredGlobal == {"_gem_repo"}
        assignedInBody == {"GemRepository", "_user_repo"}
        boundAtLine397 == {"GemRepository"}
        isLocal == "_user_repo" \in assignedInBody \ declaredGlobal
    IN /\ last' = IF isLocal /\ "_user_repo" \notin boundAtLine397
                  THEN Raised("get_gem_repository", None, << >>,
                              "UnboundLocalError", <<"_user_repo">>)
                  ELSE Returned("get_gem_repository", None, << >>, "GemRepository")
       /\ UNCHANGED <<heap, dicts, self_db, snap, returned, cleared, nCalls>>

\* ---------------------------------------------------- the caller's moves
\* The references to records the caller has just been handed: the record a
\* create, get_hidden_gem_by_id or update returned (or wrote through), or
\* the values of the mapping get_all_hidden_gems returned.
RefOps == {"create_hidden_gem", "get_hidden_gem_by_id", "setattr",
           "update_name", "update_cordinates", "update_gem_type",
           "update_times_visited", "update_user_created",
           "update_website_link", "update_accessibility",
           "update_gem_images", "update_reviews"}

Handles ==
    IF last.op \in RefOps /\ last.outcome = "returned" /\ last.ret # None
    THEN {[id |-> last.id, ref |-> last.ret]}
    ELSE IF last.op = "get_all_hidden_gems"
    THEN {[id |-> k, ref |-> dicts[snap][k]] : k \in DOMAIN dicts[snap]}
    ELSE {}

\* gem.<f> = v on a record the caller holds: nothing of the store is called.
caller_setattr(h, f, v) ==
    /\ h \in Handles
    /\ nCalls < MaxCalls
    /\ heap' = [heap EXCEPT ![h.ref] = SetAttrs(@, <<f>>, <<v>>)]
    /\ last' = Returned("setattr", h.id, <<f, v>>, h.ref)
    /\ nCalls' = nCalls + 1
    /\ UNCHANGED <<dicts, self_db, snap, returned, cleared>>

\* gems[k] = gem on the mapping get_all_hidden_gems returned.
caller_dict_set(k, ref) ==
    /\ snap # None
    /\ nCalls < MaxCalls
    /\ dicts' = [dicts EXCEPT ![snap] = DictSet(@, k, ref)]
    /\ last' = Returned("dict_set", k, << >>, None)
    /\ nCalls' = nCalls + 1
    /\ UNCHANGED <<heap, self_db, snap, returned, cleared>>

\* del gems[k] on the mapping get_all_hidden_gems returned.
caller_dict_del(k) ==
    /\ snap # None
    /\ k \in DOMAIN dicts[snap]
    /\ nCalls < MaxCalls
    /\ dicts' = [dicts EXCEPT ![snap] = DictDel(@, k)]
    /\ last' = Returned("dict_del", k, << >>, None)
    /\ nCalls' = nCalls + 1
    /\ UNCHANGED <<heap, self_db, snap, returned, cleared>>

\* ------------------------------------------------------------------ Next
Next ==
    \/ get_all_hidden_gems
    \/ \E id \in ProbeIds : get_hidden_gem_by_id(id)
    \/ \E a \in CreateArgs :
          create_hidden_gem(a.name, a.latitude, a.longitude, a.gem_type,
                            a.times_visited, a.user_created, a.website_link,
                            a.accessibility, a.gem_images, a.reviews)
    \/ \E id \in ProbeIds : get_name(id)
    \/ \E id \in ProbeIds, v \in Values("name") : update_name(id, v)
    \/ \E id \in ProbeIds : get_cordinates(id)
    \/ \E id \in ProbeIds, la \in Values("latitude"), lo \in Values("longitude") :
          update_cordinates(id, la, lo)
    \/ \E id \in ProbeIds : get_gem_type(id)
    \/ \E id \in ProbeIds, v \in Values("gem_type") : update_gem_type(id, v)
    \/ \E id \in ProbeIds : get_times_visited(id)
    \/ \E id \in ProbeIds, v \in Values("times_visited") :
          update_times_visited(id, v)
    \/ \E id \in ProbeIds : get_user_created(id)
    \/ \E id \in ProbeIds, v \in Values("user_created") :
          update_user_created(id, v)
    \/ \E id \in ProbeIds : get_website_link(id)
    \/ \E id \in ProbeIds, v \in Values("website_link") :
          update_website_link(id, v)
    \/ \E id \in ProbeIds : get_accessibility(id)
    \/ \E id \in ProbeIds, v \in Values("accessibility") :
          update_accessibility(id, v)
    \/ \E id \in ProbeIds : get_gem_images(id)
    \/ \E id \in ProbeIds, v \in Values("gem_images") : update_gem_images(id, v)
    \/ \E id \in ProbeIds : get_reviews(id)
    \/ \E id \in ProbeIds, v \in Values("reviews") : update_reviews(id, v)
    \/ clear_db
    \/ get_gem_repository
    \/ \E h \in Handles, f \in Fields : \E v \in Values(f) : caller_setattr(h, f, v)
    \/ \E k \in Ids, ref \in 1..Len(heap) : caller_dict_set(k, ref)
    \/ \E k \in Ids : caller_dict_del(k)

Spec == Init /\ [][Next]_vars

\* ------------------------------------------------- vocabulary of the claims
GetterOps == {"get_name", "get_cordinates", "get_gem_type",
              "get_times_visited", "get_user_created", "get_website_link",
              "get_accessibility", "get_gem_images", "get_reviews"}

UpdateOps == {"update_name", "update_cordinates", "update_gem_type",
              "update_times_visited", "update_user_created",
              "update_website_link", "update_accessibility",
              "update_gem_images", "update_reviews"}

\* The attributes update_<field> is documented to write.
FieldsOf(op) ==
    CASE op = "update_name" -> <<"name">>
      [] op = "update_cordinates" -> <<"latitude", "longitude">>
      [] op = "update_gem_type" -> <<"gem_type">>
      [] op = "update_times_visited" -> <<"times_visited">>
      [] op = "update_user_created" -> <<"user_created">>
      [] op = "update_website_link" -> <<"website_link">>
      [] op = "update_accessibility" -> <<"accessibility">>
      [] op = "update_gem_images" -> <<"gem_images">>
      [] op = "update_reviews" -> <<"reviews">>

FieldSet(op) == {FieldsOf(op)[i] : i \in DOMAIN FieldsOf(op)}

\* Identifiers create_hidden_gem has issued since the latest clear_db.
LiveIds == {returned[i].id : i \in DOMAIN returned}

\* The record the latest create_hidden_gem with identifier id returned.
LatestRef(id) ==
    LET idx == {i \in DOMAIN returned : returned[i].id = id}
        top == CHOOSE i \in idx : \A j \in idx : j <= i
    IN returned[top].ref

\* The value a getter hands back for the attributes fs of identifier id.
Shown(d, hp, id, fs) == GetAttr(d, hp, "get", id, fs)

\* ---------------------------------------------------------------- claims
\* C1: between two clear_db calls every create_hidden_gem returns an
\* identifier different from the identifier of every record created before
\* it, so no create overwrites an entry of the store.
C1_IdentifiersDistinct ==
    \A i, j \in DOMAIN returned :
        i # j => returned[i].id # returned[j].id

\* C2: get_hidden_gem_by_id(r.id) called right after r = create_hidden_gem(...)
\* returns a record whose ten non-identifier fields are the arguments of the
\* create and whose identifier is r.id.
C2_CreateThenGetById ==
    [][(/\ last.op = "create_hidden_gem"
        /\ last'.op = "get_hidden_gem_by_id"
        /\ last'.id = heap[last.ret].id)
       => /\ last'.outcome = "returned"
          /\ last'.ret # None
          /\ ArgsOf(heap'[last'.ret]) = last.args
          /\ heap'[last'.ret].id = heap[last.ret].id]_vars

\* A get_hidden_gem_by_id that found the only record ever created, which
\* was created from ArgsB and never written since.
C2_Witness ==
    /\ last.op = "get_hidden_gem_by_id"
    /\ last.ret # None
    /\ Len(heap) = 1
    /\ nCalls = 1
    /\ ArgsOf(heap[last.ret]) = ArgsB

\* C3: for an identifier that is not live, every get_<field> and every
\* update_<field> ends in NotFoundError carrying that identifier.
C3_NotFoundIsTyped ==
    (/\ last.op \in GetterOps \cup UpdateOps
     /\ last.id \notin LiveIds)
    => /\ last.outcome = "NotFoundError"
       /\ \E i \in DOMAIN last.ret : last.ret[i] = last.id

\* C4: update_<f>(id, v) on a live id returns; afterwards get_<f>(id) gives v,
\* every other field of the record (its identifier too) is as before, and
\* every other record and the set of identifiers are unchanged.
C4_UpdateFrame ==
    [][(last'.op \in UpdateOps /\ last'.id \in LiveIds)
       => LET id == last'.id
              fs == FieldsOf(last'.op)
          IN /\ last'.outcome = "returned"
             /\ Shown(Db', heap', id, fs).outcome = "returned"
             /\ IF Len(fs) = 1
                THEN Shown(Db', heap', id, fs).ret = last'.args[1]
                ELSE \A i \in DOMAIN fs :
                        Shown(Db', heap', id, fs).ret[i] = last'.args[i]
             /\ Db' = Db
             /\ \A a \in (DOMAIN heap[Db[id]]) \ FieldSet(last'.op) :
                    heap'[Db[id]][a] = heap[Db[id]][a]
             /\ \A r \in DOMAIN heap : r # Db[id] => heap'[r] = heap[r]
             /\ DOMAIN heap' = DOMAIN heap]_vars

\* update_cordinates has returned on a store of two records.
C4_Witness ==
    /\ last.op = "update_cordinates"
    /\ last.outcome = "returned"
    /\ Cardinality(DOMAIN Db) = 2
    /\ heap[last.ret].latitude = 404
    /\ heap[last.ret].name = "Old Mill"

\* C5: with n create_hidden_gem calls and no clear_db since the store was
\* built, get_all_hidden_gems returns n entries; right after clear_db the
\* store lists 0 entries.
C5_ListCountsCreates ==
    /\ (last.op = "get_all_hidden_gems" /\ ~cleared)
       => Cardinality(DOMAIN dicts[last.ret]) = Len(returned)
    /\ last.op = "clear_db" => Cardinality(DOMAIN Db) = 0

\* C6: the store holds exactly the records create_hidden_gem returned since
\* the latest clear_db, and each of them is retrievable under its identifier.
C6_HeldIffCreated ==
    /\ {Db[k] : k \in DOMAIN Db} = {returned[i].ref : i \in DOMAIN returned}
    /\ \A i \in DOMAIN returned :
          DictGet(Db, heap[returned[i].ref].id) = returned[i].ref

\* C7: get_hidden_gem_by_id never raises: it returns the record of a live id
\* and None for any other id, and leaves the store as it was.
C7_GetByIdTotal ==
    [][last'.op = "get_hidden_gem_by_id"
       => /\ last'.outcome = "returned"
          /\ last'.ret = IF last'.id \in LiveIds
                         THEN LatestRef(last'.id) ELSE None
          /\ dicts' = dicts /\ self_db' = self_db /\ heap' = heap]_vars

\* get_hidden_gem_by_id of an identifier never issued, on a store that
\* never held a record, returned None.
C7_Witness ==
    /\ last.op = "get_hidden_gem_by_id"
    /\ last.id = IdMax + 1
    /\ last.outcome = "returned"
    /\ last.ret = None
    /\ heap = << >>

\* C8: get_all_hidden_gems returns a new mapping holding exactly the live
\* identifiers and changes nothing in the store; a later create_hidden_gem
\* or clear_db does not change the identifiers of the returned mapping, and
\* the caller's edits of the returned mapping do not change the store.
C8_SnapshotIndependent ==
    [][/\ last'.op = "get_all_hidden_gems"
          => /\ last'.outcome = "returned"
             /\ snap' = last'.ret
             /\ DOMAIN dicts'[snap'] = LiveIds
             /\ Db' = Db /\ self_db' = self_db /\ heap' = heap
       /\ (last'.op \in {"create_hidden_gem", "clear_db"} /\ snap # None)
          => /\ snap' = snap
             /\ DOMAIN dicts'[snap'] = DOMAIN dicts[snap]
       /\ last'.op \in {"dict_set", "dict_del"}
          => Db' = Db /\ self_db' = self_db /\ heap' = heap]_vars

\* A create_hidden_gem after a get_all_hidden_gems: the store has an
\* identifier the returned mapping has not.
C8_Witness ==
    /\ snap # None
    /\ last.op = "create_hidden_gem"
    /\ DOMAIN dicts[snap] # DOMAIN Db
    /\ last.id \notin DOMAIN dicts[snap]

\* C9: every get_gem_repository() call returns, and returns the one store.
C9_AccessorReturnsStore ==
    last.op = "get_gem_repository"
    => /\ last.outcome = "returned"
       /\ last.ret = "GemRepository"

\* C10: the record create_hidden_gem, get_hidden_gem_by_id and update_<field>
\* return, and the values of a get_all_hidden_gems result, are the objects
\* the store holds: an update_<field>(id, v) shows in every reference to
\* id's record the caller was handed before, and an attribute written
\* through such a reference is what get_<field>(id) returns.
C10_SameObject ==
    [][/\ (last'.op \in {"create_hidden_gem", "get_hidden_gem_by_id"} \cup UpdateOps
           /\ last'.outcome = "returned")
          => last'.ret = DictGet(Db', last'.id)
       /\ last'.op = "get_all_hidden_gems"
          => \A k \in DOMAIN Db : DictGet(dicts'[last'.ret], k) = Db[k]
       /\ (last'.op \in UpdateOps /\ last'.outcome = "returned")
          => \A h \in Handles :
                h.id = last'.id
                => \A i \in DOMAIN FieldsOf(last'.op) :
                      heap'[h.ref][FieldsOf(last'.op)[i]] = last'.args[i]
       /\ last'.op = "setattr"
          => /\ Shown(Db', heap', last'.id, <<last'.args[1]>>).outcome = "returned"
             /\ Shown(Db', heap', last'.id, <<last'.args[1]>>).ret = last'.args[2]]_vars

\* The caller wrote the name of a record created from ArgsA; the store's
\* record shows the new name.
C10_Witness ==
    /\ last.op = "setattr"
    /\ last.args = <<"name", "Old Windmill">>
    /\ last.id \in DOMAIN Db
    /\ heap[Db[last.id]].name = "Old Windmill"
    /\ heap[Db[last.id]].gem_type = "historic"

====
